---- MODULE Spec2Model ----
(***************************************************************************)
(* Model of the Python tooling of swift-fusion-surrogates:                 *)
(*   Scripts/verify_output_order.py     order verification + prediction    *)
(*   Scripts/convert_onnx_to_safetensors.py, Scripts/convert_onnx_to_mlx.py*)
(*   Scripts/test_mlx_vs_python.py      golden fixture generation          *)
(*   test_new_api_final.py, verify_python.py   verification runs           *)
(*   verify_python_api.py               API verification driver (main)     *)
(*   compare (parity comparison of a candidate with the golden fixture)   *)
(* Python sequences are 0-based; TLA+ sequences are 1-based, so a Python   *)
(* index i is position i + 1 here and reports carry the Python index.      *)
(* stdout holds the lines of interest a run has printed, as a set of tags. *)
(***************************************************************************)
EXTENDS Integers, Sequences, FiniteSets, TLC

VARIABLES script, pc, onnx_order, swift_order, matched, differences, stdout,
          exit_status, graph, output_path, weights, disk, error,
          model_keys, model_rank, model_bad, outputs, expected_outputs, test_i,
          all_finite, candidate, tolerance, parity_report,
          new_api_works, old_api_works, mlx_conversion_works, calls

vars == <<script, pc, onnx_order, swift_order, matched, differences, stdout,
          exit_status, graph, output_path, weights, disk, error,
          model_keys, model_rank, model_bad, outputs, expected_outputs, test_i,
          all_finite, candidate, tolerance, parity_report,
          new_api_works, old_api_works, mlx_conversion_works, calls>>

\* the inputs and the report of a parity comparison
cmpVars == <<candidate, tolerance, parity_report>>

\* the results verify_python_api.main holds, and the tests it has called
apiVars == <<new_api_works, old_api_works, mlx_conversion_works, calls>>

\* the reference predictor as loaded, and what a harness holds of its results
predVars == <<model_keys, model_rank, model_bad, outputs, expected_outputs,
              test_i, all_finite>>

\* the variables of the order verification
orderVars == <<onnx_order, swift_order, matched, differences>>

\* the variables of a conversion run
convVars == <<graph, output_path, weights, disk>>

(* ---------------------------- bounds ----------------------------------- *)

\* longest name sequence handed to the order verification block
MaxLen == 3

\* most initializers of a model graph
MaxInit == 3

\* most nodes of a model graph
MaxNodes == 2

(* ---------------------------- helpers ---------------------------------- *)

Min(a, b) == IF a <= b THEN a ELSE b

Max(a, b) == IF a >= b THEN a ELSE b

\* all sequences over S of length 0..n
SeqsUpTo(S, n) == UNION {[1..k -> S] : k \in 0..n}

(* ------------------- Scripts/verify_output_order.py -------------------- *)

\* the literal list of verify_output_order.py
SwiftOrder == <<"efeITG", "efiITG", "pfeITG", "efeTEM", "efiTEM", "pfeTEM",
                "efeETG", "gamma_max">>

\* names the order verification block is exercised with
OrderNames == {"efeITG", "efiITG", "pfeITG"}

\* Zip stopping one pair short
ZipMut(a, b) == [i \in 1..(Min(Len(a), Len(b)) - 1) |-> <<a[i], b[i]>>]

\* zip(onnx_order, swift_order): pairs up to the end of the SHORTER sequence
Zip(a, b) == [i \in 1..Min(Len(a), Len(b)) |-> <<a[i], b[i]>>]

\* the for loop over enumerate(zip(..)): one line per pair whose names differ
RECURSIVE DiffLines(_, _)
DiffLines(z, i) ==
    IF i > Len(z) THEN <<>>
    ELSE (IF z[i][1] # z[i][2]
          THEN <<[index |-> i - 1, onnx |-> z[i][1], swift |-> z[i][2]]>>
          ELSE <<>>) \o DiffLines(z, i + 1)

\* onnx_order == swift_order (list equality: same length, same elements)
OrdersEqual(a, b) == a = b

\* lines printed under "Differences:" (none when the orders match)
Differences(a, b) == IF OrdersEqual(a, b) THEN <<>> ELSE DiffLines(Zip(a, b), 1)

\* the block of lines 37-45
OrderVerification ==
    /\ script = "verify_output_order"
    /\ pc = "verify"
    /\ matched' = OrdersEqual(onnx_order, swift_order)
    /\ differences' = Differences(onnx_order, swift_order)
    /\ stdout' = stdout \cup {IF OrdersEqual(onnx_order, swift_order)
                               THEN "order_matches" ELSE "order_mismatch"}
    /\ pc' = "predict"
    /\ UNCHANGED <<script, predVars, onnx_order, swift_order, exit_status, convVars,
                   error>>
    /\ UNCHANGED <<cmpVars, apiVars>>

(* ------ convert_onnx_to_safetensors.py and convert_onnx_to_mlx.py ------ *)

\* a graph with nothing in it (runs that load no graph)
NoGraph == [initializer |-> <<>>, node |-> <<>>, n_input |-> 0]

InitializerNames == {"w", "b"}

SourceDTypes == {"float32", "float64"}

\* the initializer records of model.graph.initializer of element type dt
Initializers(dt) == [name : InitializerNames, dtype : {dt}, data : {0, 1}]

OpTypes == {"Gemm", "MatMul", "Relu"}

\* the model graphs a run may load; the initializers of one graph are of
\* one element type
Graphs == UNION {[initializer : SeqsUpTo(Initializers(dt), MaxInit),
                  node : SeqsUpTo(OpTypes, MaxNodes),
                  n_input : 0..1] : dt \in SourceDTypes}

\* data.astype(np.float32): same values, float32 element type
AsFloat32(t) == [name |-> t.name, dtype |-> "float32", data |-> t.data]

\* DictSet on a list of pairs instead of a dict: a repeated name is appended
DictSetMut(d, t) == Append(d, t)

\* weights[name] = value on a Python dict kept as a sequence in insertion
\* order: an existing key keeps its position and takes the new value
DictSet(d, t) ==
    IF \E i \in 1..Len(d) : d[i].name = t.name
    THEN [i \in 1..Len(d) |-> IF d[i].name = t.name THEN t ELSE d[i]]
    ELSE Append(d, t)

\* the loop over model.graph.initializer
RECURSIVE ExtractLoop(_, _, _)
ExtractLoop(inits, i, d) ==
    IF i > Len(inits) THEN d
    ELSE ExtractLoop(inits, i + 1, DictSet(d, AsFloat32(inits[i])))

ExtractWeights(inits) == ExtractLoop(inits, 1, <<>>)

\* list(weights.keys())
Keys(d) == [i \in 1..Len(d) |-> d[i].name]

IsConverter == script \in {"convert_onnx_to_safetensors", "convert_onnx_to_mlx"}

\* Extract rejecting a graph without initializers
ExtractMut ==
    /\ IsConverter
    /\ pc = "extract"
    /\ IF graph.initializer = <<>>
       THEN /\ pc' = "failed"
            /\ error' = "MissingInitializer"
            /\ exit_status' = 1
            /\ UNCHANGED weights
       ELSE /\ weights' = ExtractWeights(graph.initializer)
            /\ pc' = IF script = "convert_onnx_to_mlx" THEN "architecture"
                      ELSE "save"
            /\ UNCHANGED <<error, exit_status>>
    /\ UNCHANGED <<script, predVars, orderVars, stdout, graph, output_path, disk>>
    /\ UNCHANGED <<cmpVars, apiVars>>

\* "Extract all weights"
Extract ==
    /\ IsConverter
    /\ pc = "extract"
    /\ weights' = ExtractWeights(graph.initializer)
    /\ pc' = IF script = "convert_onnx_to_mlx" THEN "architecture" ELSE "save"
    /\ UNCHANGED <<script, predVars, orderVars, stdout, exit_status, graph, output_path,
                   disk, error>>
    /\ UNCHANGED <<cmpVars, apiVars>>

\* convert_onnx_to_mlx: "Extract model architecture info"; graph.input[0]
\* raises IndexError on a graph without inputs
PrintArchitecture ==
    /\ script = "convert_onnx_to_mlx"
    /\ pc = "architecture"
    /\ IF graph.n_input = 0
       THEN /\ pc' = "failed"
            /\ error' = "IndexError"
            /\ exit_status' = 1
       ELSE /\ pc' = "save"
            /\ UNCHANGED <<error, exit_status>>
    /\ UNCHANGED <<script, predVars, orderVars, stdout, convVars>>
    /\ UNCHANGED <<cmpVars, apiVars>>

\* Path(output_dir) / "qlknn_7_11_weights.safetensors", or output_path
ArchivePath ==
    IF script = "convert_onnx_to_safetensors"
    THEN Append(output_path, "qlknn_7_11_weights.safetensors")
    ELSE output_path

\* the file np.savez writes: ".npz" is appended to a name that lacks it
SavezTarget(p) == IF p # <<>> /\ p[Len(p)] = ".npz" THEN p ELSE Append(p, ".npz")

\* the file the archive write creates
ArchiveFile ==
    IF script = "convert_onnx_to_safetensors" THEN ArchivePath
    ELSE SavezTarget(ArchivePath)

\* Path(output_dir) / "qlknn_7_11_metadata.json", or
\* output_path.replace('.npz', '_metadata.json')
MetadataPath ==
    IF script = "convert_onnx_to_safetensors"
    THEN Append(output_path, "qlknn_7_11_metadata.json")
    ELSE [i \in 1..Len(output_path) |->
             IF output_path[i] = ".npz" THEN "_metadata.json" ELSE output_path[i]]

\* the file at path p now holds content c
WriteFile(d, p, c) == (p :> c) @@ d

\* the orders in which the archive write may lay the tensors of w down:
\* np.savez(output_path, **weights) stores one member per keyword, in keyword
\* (dict) order; save_file(weights, output_path) hands the dict to the
\* safetensors library, which lays the tensors out in an order of its own, so
\* any order of the same tensors may come out
ArchiveOrders(w) ==
    IF script = "convert_onnx_to_mlx" THEN {w}
    ELSE {q \in [1..Len(w) -> {w[i] : i \in 1..Len(w)}] :
              \A i \in 1..Len(w) : \E j \in 1..Len(w) : q[j] = w[i]}

\* SaveArchive swallowing the storage fault and going on
SaveArchiveMut ==
    /\ IsConverter
    /\ pc = "save"
    /\ \/ \E t \in ArchiveOrders(weights) :
              disk' = WriteFile(disk, ArchiveFile,
                                [kind |-> "archive", tensors |-> t,
                                 complete |-> TRUE])
       \/ disk' = WriteFile(disk, ArchiveFile,
                             [kind |-> "archive", tensors |-> <<>>,
                              complete |-> FALSE])
    /\ pc' = "stat"
    /\ UNCHANGED <<script, predVars, orderVars, stdout, graph, output_path, weights,
                   error, exit_status>>
    /\ UNCHANGED <<cmpVars, apiVars>>

\* save_file(weights, output_path) / np.savez(output_path, **weights); a
\* storage fault raises and leaves no file or a partly written one
SaveArchive ==
    /\ IsConverter
    /\ pc = "save"
    /\ \/ /\ \E t \in ArchiveOrders(weights) :
                 disk' = WriteFile(disk, ArchiveFile,
                                   [kind |-> "archive", tensors |-> t,
                                    complete |-> TRUE])
          /\ pc' = "stat"
          /\ UNCHANGED <<error, exit_status>>
       \/ /\ \/ disk' = disk
             \/ disk' = WriteFile(disk, ArchiveFile,
                                  [kind |-> "archive", tensors |-> <<>>,
                                   complete |-> FALSE])
          /\ pc' = "failed"
          /\ error' = "OSError"
          /\ exit_status' = 1
    /\ UNCHANGED <<script, predVars, orderVars, stdout, graph, output_path, weights>>
    /\ UNCHANGED <<cmpVars, apiVars>>

\* output_path.stat().st_size: raises when the file is not there, and on a
\* storage fault
StatArchive ==
    /\ IsConverter
    /\ pc = "stat"
    /\ \/ /\ ArchivePath \in DOMAIN disk
          /\ pc' = "metadata"
          /\ UNCHANGED <<error, exit_status>>
       \/ /\ pc' = "failed"
          /\ error' = "OSError"
          /\ exit_status' = 1
    /\ UNCHANGED <<script, predVars, orderVars, stdout, convVars>>
    /\ UNCHANGED <<cmpVars, apiVars>>

\* the 'input_names' literal of both converters
InputNames == <<"Ati", "Ate", "Ane", "Ani", "q", "smag", "x", "Ti_Te",
                "LogNuStar", "normni">>

\* the 'output_names' literal of both converters
OutputNames == <<"efiITG", "efeITG", "pfeITG", "efeTEM", "efiTEM", "pfeTEM",
                 "efeETG", "gamma_max">>

Layer(i, o, a) == [type |-> "Linear", in |-> i, out |-> o, activation |-> a]

\* SafetensorsLayers with the hidden width as the last layer's output
SafetensorsLayersMut ==
    <<Layer(10, 133, "ReLU"), Layer(133, 133, "ReLU"), Layer(133, 133, "ReLU"),
      Layer(133, 133, "ReLU"), Layer(133, 133, "ReLU"), Layer(133, 133, "None")>>

\* the 'layers' literal of convert_onnx_to_safetensors
SafetensorsLayers ==
    <<Layer(10, 133, "ReLU"), Layer(133, 133, "ReLU"), Layer(133, 133, "ReLU"),
      Layer(133, 133, "ReLU"), Layer(133, 133, "ReLU"), Layer(133, 8, "None")>>

\* SafetensorsMetadata tagging the source precision instead of float32
SafetensorsMetadataMut(w) ==
    [model_name |-> "qlknn_7_11",
     architecture |-> [layers |-> SafetensorsLayers],
     input_names |-> InputNames,
     output_names |-> OutputNames,
     weight_names |-> Keys(w),
     precision |-> "float64"]

\* the metadata dict of convert_onnx_to_safetensors
SafetensorsMetadata(w) ==
    [model_name |-> "qlknn_7_11",
     architecture |-> [layers |-> SafetensorsLayers],
     input_names |-> InputNames,
     output_names |-> OutputNames,
     weight_names |-> Keys(w),
     precision |-> "float32"]

\* NumLayers counting the Gemm nodes only
NumLayersMut(g) == Len(SelectSeq(g.node, LAMBDA op : op = "Gemm"))

\* len([n for n in model.graph.node if n.op_type == 'Gemm' or ... 'MatMul'])
NumLayers(g) ==
    Len(SelectSeq(g.node, LAMBDA op : op = "Gemm" \/ op = "MatMul"))

\* the metadata dict of convert_onnx_to_mlx
MlxMetadata(g) ==
    [input_names |-> InputNames,
     output_names |-> OutputNames,
     num_layers |-> NumLayers(g)]

Metadata ==
    IF script = "convert_onnx_to_safetensors" THEN SafetensorsMetadata(weights)
    ELSE MlxMetadata(graph)

\* open(metadata_path, 'w') and json.dump: a fault at open leaves no file, a
\* fault while writing leaves a partly written one; then the function returns
WriteDescriptor ==
    /\ IsConverter
    /\ pc = "metadata"
    /\ \/ /\ disk' = WriteFile(disk, MetadataPath,
                                [kind |-> "descriptor", content |-> Metadata,
                                 complete |-> TRUE])
          /\ pc' = "done"
          /\ exit_status' = 0
          /\ UNCHANGED error
       \/ /\ \/ disk' = disk
             \/ disk' = WriteFile(disk, MetadataPath,
                                  [kind |-> "descriptor", content |-> <<>>,
                                   complete |-> FALSE])
          /\ pc' = "failed"
          /\ error' = "OSError"
          /\ exit_status' = 1
    /\ UNCHANGED <<script, predVars, orderVars, stdout, graph, output_path, weights>>
    /\ UNCHANGED <<cmpVars, apiVars>>

\* the destinations a run is given: a directory for the tensor archive, a
\* file name with or without the ".npz" suffix for the zipped arrays
OutputPaths(s) ==
    IF s = "convert_onnx_to_safetensors" THEN {<<"Resources">>}
    ELSE {<<"Resources/qlknn_7_11_weights", ".npz">>,
          <<"Resources/qlknn_7_11_weights">>}

InitConvert ==
    /\ script \in {"convert_onnx_to_safetensors", "convert_onnx_to_mlx"}
    /\ pc = "extract"
    /\ graph \in Graphs
    /\ output_path \in OutputPaths(script)
    /\ weights = <<>>
    /\ disk = <<>>
    /\ error = "none"
    /\ onnx_order = <<>>
    /\ swift_order = <<>>
    /\ matched = FALSE
    /\ differences = <<>>
    /\ stdout = {}
    /\ exit_status = -1
    /\ model_keys = {}
    /\ model_rank = 1
    /\ model_bad = {}
    /\ outputs = <<>>
    /\ expected_outputs = <<>>
    /\ test_i = 1
    /\ candidate = <<>>
    /\ tolerance = 0
    /\ parity_report = <<>>
    /\ new_api_works = FALSE
    /\ old_api_works = FALSE
    /\ mlx_conversion_works = FALSE
    /\ calls = <<>>
    /\ all_finite = TRUE

Convert == Extract \/ PrintArchitecture \/ SaveArchive \/ StatArchive \/ WriteDescriptor

SpecConvert == InitConvert /\ [][Convert]_vars

(* ---------- the order verification block on arbitrary sequences -------- *)

InitOrder ==
    /\ script = "verify_output_order"
    /\ pc = "verify"
    /\ onnx_order \in SeqsUpTo(OrderNames, MaxLen)
    /\ swift_order \in SeqsUpTo(OrderNames, MaxLen)
    /\ matched = FALSE
    /\ differences = <<>>
    /\ stdout = {}
    /\ exit_status = -1
    /\ model_keys = {}
    /\ model_rank = 1
    /\ model_bad = {}
    /\ outputs = <<>>
    /\ expected_outputs = <<>>
    /\ test_i = 1
    /\ candidate = <<>>
    /\ tolerance = 0
    /\ parity_report = <<>>
    /\ new_api_works = FALSE
    /\ old_api_works = FALSE
    /\ mlx_conversion_works = FALSE
    /\ calls = <<>>
    /\ all_finite = TRUE
    /\ graph = NoGraph
    /\ output_path = <<>>
    /\ weights = <<>>
    /\ disk = <<>>
    /\ error = "none"

SpecOrder == InitOrder /\ [][OrderVerification]_vars

(* ----------------------- the reference predictor ----------------------- *)

\* The predictor (fusion_surrogates' QLKNNModel) is not part of the
\* repository.  A loaded model is described by the keys of the dict it
\* returns (model_keys), by the rank of the arrays in it (model_rank: shape
\* (n,) or shape (n, 1)) and by the keys whose values are not finite
\* (model_bad).  An array is [shape, data], data nested as the shape says.

\* the keys test_new_api_final.py reads from the result
NewApiKeys == {"efiITG", "efiTEM", "efeITG", "efeTEM", "efeETG", "pfeITG",
               "pfeTEM", "gamma_max"}

\* expected_keys of verify_python.py
ExpectedKeys == <<"chi_ion_itg", "chi_electron_tem", "chi_electron_etg",
                  "particle_flux">>

\* the keys verify_python.py reads in Test 3 and Test 4
ScalarKeys == {"chi_ion_itg", "chi_electron_tem", "chi_electron_etg"}

Range(q) == {q[i] : i \in 1..Len(q)}

\* the key sets a loaded model may return: all the keys, or all but one
KeySets(all) == {all} \cup {all \ {k} : k \in all}

Value(k) == IF k \in model_bad THEN "nan" ELSE "finite"

\* model.predict(inputs) on a batch of n samples
Predict(n) ==
    [k \in model_keys |->
        IF model_rank = 1
        THEN [shape |-> <<n>>, data |-> [i \in 1..n |-> Value(k)]]
        ELSE [shape |-> <<n, 1>>, data |-> [i \in 1..n |-> <<Value(k)>>]]]

\* np.all(np.isfinite(a))
AllFinite(a) ==
    IF Len(a.shape) = 1
    THEN \A i \in 1..Len(a.data) : a.data[i] = "finite"
    ELSE \A i \in 1..Len(a.data) : \A j \in 1..Len(a.data[i]) :
             a.data[i][j] = "finite"

(* ------------------- Scripts/test_mlx_vs_python.py --------------------- *)

\* test_cases: name and number of samples of each input batch
TestCases == <<[name |-> "single_sample", n |-> 1],
               [name |-> "three_samples", n |-> 3],
               [name |-> "realistic_plasma", n |-> 1],
               [name |-> "batch_varying", n |-> 5]>>

\* sorted(..) on the output keys: Python orders str by code point
SortedKeyOrder == <<"chi_electron_etg", "chi_electron_tem", "chi_ion_itg",
                    "efeETG", "efeITG", "efeTEM", "efiITG", "efiTEM",
                    "gamma_max", "particle_flux", "pfeITG", "pfeTEM">>

Sorted(keys) == SelectSeq(SortedKeyOrder, LAMBDA k : k \in keys)

RECURSIVE Concat(_, _)
Concat(rows, i) == IF i > Len(rows) THEN <<>> ELSE rows[i] \o Concat(rows, i + 1)

\* FlattenMut: the first row instead of all the rows
FlattenMut(a) == IF Len(a.shape) = 1 THEN a.data ELSE a.data[1]

\* np.array(outputs[key]).flatten(): all elements in row-major order
Flatten(a) == IF Len(a.shape) = 1 THEN a.data ELSE Concat(a.data, 1)

\* [float(v) for v in values]
Floats(values) == [i \in 1..Len(values) |-> values[i]]

\* the loop "for key in sorted(outputs.keys())" building result
RECURSIVE ResultLoop(_, _, _, _)
ResultLoop(keys, i, outs, result) ==
    IF i > Len(keys) THEN result
    ELSE ResultLoop(keys, i + 1, outs,
                    DictSet(result, [name |-> keys[i],
                                     values |-> Floats(Flatten(outs[keys[i]]))]))

FixtureFile == <<"Tests/FusionSurrogatesTests/expected_outputs.json">>

\* QLKNNModel.load_default_model() (line 15): an exception is not caught and
\* ends the script with status 1 before anything is predicted
LoadModel ==
    /\ script = "test_mlx_vs_python"
    /\ pc = "load"
    /\ \/ pc' = "cases" /\ UNCHANGED <<error, exit_status>>
       \/ /\ pc' = "failed"
          /\ error' = "Exception"
          /\ exit_status' = 1
    /\ UNCHANGED <<script, predVars, orderVars, stdout, convVars, cmpVars, apiVars>>

\* one round of the loop over test_cases.items(); model.predict (line 47)
\* may raise: the exception is not caught, the script ends with status 1,
\* the remaining cases are not run and no fixture is written
GenerateCase ==
    /\ script = "test_mlx_vs_python"
    /\ pc = "cases"
    /\ test_i <= Len(TestCases)
    /\ \/ /\ LET outs == Predict(TestCases[test_i].n)
                 result == ResultLoop(Sorted(DOMAIN outs), 1, outs, <<>>)
             IN /\ outputs' = outs
                /\ expected_outputs' =
                       DictSet(expected_outputs,
                               [name |-> TestCases[test_i].name, result |-> result])
          /\ test_i' = test_i + 1
          /\ UNCHANGED <<pc, error, exit_status>>
       \/ /\ pc' = "failed"
          /\ error' = "Exception"
          /\ exit_status' = 1
          /\ UNCHANGED <<outputs, expected_outputs, test_i>>
    /\ UNCHANGED <<script, orderVars, stdout, convVars, model_keys, model_rank,
                   model_bad, all_finite>>
    /\ UNCHANGED <<cmpVars, apiVars>>

\* "Save to JSON for Swift tests to reference"
SaveFixture ==
    /\ script = "test_mlx_vs_python"
    /\ pc = "cases"
    /\ test_i > Len(TestCases)
    /\ \/ /\ disk' = WriteFile(disk, FixtureFile,
                                [kind |-> "fixture", content |-> expected_outputs,
                                 complete |-> TRUE])
          /\ pc' = "done"
          /\ exit_status' = 0
          /\ UNCHANGED error
       \/ /\ \/ disk' = disk
             \/ disk' = WriteFile(disk, FixtureFile,
                                  [kind |-> "fixture", content |-> <<>>,
                                   complete |-> FALSE])
          /\ pc' = "failed"
          /\ error' = "OSError"
          /\ exit_status' = 1
    /\ UNCHANGED <<script, predVars, orderVars, stdout, graph, output_path,
                   weights>>
    /\ UNCHANGED <<cmpVars, apiVars>>

\* the values some key of a loaded model may lack finiteness for
BadSets(all) == {{}} \cup {{k} : k \in all}

InitFixture ==
    /\ script = "test_mlx_vs_python"
    /\ pc = "load"
    /\ model_keys \in KeySets(NewApiKeys)
    /\ model_rank \in 1..2
    /\ model_bad \in BadSets({"efiITG"})
    /\ outputs = <<>>
    /\ expected_outputs = <<>>
    /\ test_i = 1
    /\ candidate = <<>>
    /\ tolerance = 0
    /\ parity_report = <<>>
    /\ new_api_works = FALSE
    /\ old_api_works = FALSE
    /\ mlx_conversion_works = FALSE
    /\ calls = <<>>
    /\ all_finite = TRUE
    /\ onnx_order = <<>>
    /\ swift_order = <<>>
    /\ matched = FALSE
    /\ differences = <<>>
    /\ stdout = {}
    /\ exit_status = -1
    /\ graph = NoGraph
    /\ output_path = <<>>
    /\ weights = <<>>
    /\ disk = <<>>
    /\ error = "none"

Fixture == LoadModel \/ GenerateCase \/ SaveFixture

SpecFixture == InitFixture /\ [][Fixture]_vars

(* -------------- verification runs that end with a summary -------------- *)

\* the graph output orders verify_output_order.py is run against: the
\* assumed order itself, the converters' order, one channel less, one more
OnnxOrders == {SwiftOrder, OutputNames, SubSeq(SwiftOrder, 1, Len(SwiftOrder) - 1),
               Append(SwiftOrder, "efiETG")}

\* a step that ends the run with an error (uncaught exception, exit(1) or
\* main returning 1)
Abort(err) ==
    /\ pc' = "failed"
    /\ error' = err
    /\ exit_status' = 1

\* the loop "for name in swift_order" of lines 54-56, name by name:
\* outputs[name] raises KeyError when the name is missing, and formatting
\* outputs[name][0] with .6f raises TypeError unless it is a scalar (arrays
\* of shape (1,)); the first name that raises ends the loop
RECURSIVE ShowLoop(_, _)
ShowLoop(names, i) ==
    IF i > Len(names) THEN "none"
    ELSE IF names[i] \notin model_keys THEN "KeyError"
    ELSE IF model_rank # 1 THEN "TypeError"
    ELSE ShowLoop(names, i + 1)

\* verify_output_order.py, "Testing with actual prediction" (lines 47-56):
\* load_default_model or predict may raise; nothing is caught, so any
\* exception ends the script with status 1 before the summary
VO_Predict ==
    /\ script = "verify_output_order"
    /\ pc = "predict"
    /\ \/ /\ outputs' = Predict(1)
          /\ IF ShowLoop(swift_order, 1) # "none"
             THEN Abort(ShowLoop(swift_order, 1))
             ELSE pc' = "summary" /\ UNCHANGED <<error, exit_status>>
       \/ /\ Abort("Exception")
          /\ UNCHANGED outputs
    /\ UNCHANGED <<script, orderVars, stdout, convVars, model_keys, model_rank,
                   model_bad, expected_outputs, test_i, all_finite>>
    /\ UNCHANGED <<cmpVars, apiVars>>

\* verify_output_order.py line 58, then the script ends
VO_Summary ==
    /\ script = "verify_output_order"
    /\ pc = "summary"
    /\ stdout' = stdout \cup {"all_checks_passed"}
    /\ pc' = "done"
    /\ exit_status' = 0
    /\ UNCHANGED <<script, predVars, orderVars, convVars, error>>
    /\ UNCHANGED <<cmpVars, apiVars>>

\* test_new_api_final.main steps 1-3: the import, load_default_model and the
\* config reads are inside the try
NA_Load ==
    /\ script = "test_new_api_final"
    /\ pc = "load"
    /\ \/ pc' = "predict" /\ UNCHANGED <<error, exit_status, stdout>>
       \/ Abort("Exception") /\ stdout' = stdout \cup {"error"}
    /\ UNCHANGED <<script, predVars, orderVars, convVars>>
    /\ UNCHANGED <<cmpVars, apiVars>>

\* steps 4-6: predict on 3 samples, value[:, 0] of every output, then the
\* eight channels by name; predict raising is caught like the other
\* exceptions (main returns 1)
NA_Predict ==
    /\ script = "test_new_api_final"
    /\ pc = "predict"
    /\ \/ /\ outputs' = Predict(3)
          /\ IF model_keys # {} /\ model_rank < 2
             THEN Abort("IndexError") /\ stdout' = stdout \cup {"error"}
             ELSE IF ~(NewApiKeys \subseteq model_keys)
             THEN Abort("KeyError") /\ stdout' = stdout \cup {"error"}
             ELSE pc' = "sanity" /\ UNCHANGED <<error, exit_status, stdout>>
       \/ /\ Abort("Exception")
          /\ stdout' = stdout \cup {"error"}
          /\ UNCHANGED outputs
    /\ UNCHANGED <<script, orderVars, convVars, model_keys, model_rank,
                   model_bad, expected_outputs, test_i, all_finite>>
    /\ UNCHANGED <<cmpVars, apiVars>>

\* step 7, "Verifying output sanity"
NA_Sanity ==
    /\ script = "test_new_api_final"
    /\ pc = "sanity"
    /\ all_finite' = (\A k \in DOMAIN outputs : AllFinite(outputs[k]))
    /\ stdout' = stdout \cup (IF \A k \in DOMAIN outputs : AllFinite(outputs[k])
                              THEN {"all_finite"} ELSE {"non_finite"})
    /\ pc' = "summary"
    /\ UNCHANGED <<script, orderVars, convVars, error, exit_status, model_keys,
                   model_rank, model_bad, outputs, expected_outputs, test_i>>
    /\ UNCHANGED <<cmpVars, apiVars>>

\* "ALL VERIFICATION PASSED", return 0
NA_Summary ==
    /\ script = "test_new_api_final"
    /\ pc = "summary"
    /\ stdout' = stdout \cup {"all_verification_passed"}
    /\ pc' = "done"
    /\ exit_status' = 0
    /\ UNCHANGED <<script, predVars, orderVars, convVars, error>>
    /\ UNCHANGED <<cmpVars, apiVars>>

\* verify_python.py Tests 1 and 2: import and model construction
VP_Init ==
    /\ script = "verify_python"
    /\ pc = "load"
    /\ \/ pc' = "scalar" /\ UNCHANGED <<error, exit_status, stdout>>
       \/ Abort("Exception") /\ stdout' = stdout \cup {"error"}
    /\ UNCHANGED <<script, predVars, orderVars, convVars>>
    /\ UNCHANGED <<cmpVars, apiVars>>

\* Test 3: scalar prediction, then three of the output keys are read
VP_Scalar ==
    /\ script = "verify_python"
    /\ pc = "scalar"
    /\ \/ /\ outputs' = Predict(1)
          /\ IF ScalarKeys \subseteq model_keys
             THEN pc' = "profile" /\ UNCHANGED <<error, exit_status, stdout>>
             ELSE Abort("KeyError") /\ stdout' = stdout \cup {"error"}
       \/ /\ Abort("Exception")
          /\ stdout' = stdout \cup {"error"}
          /\ UNCHANGED outputs
    /\ UNCHANGED <<script, orderVars, convVars, model_keys, model_rank,
                   model_bad, expected_outputs, test_i, all_finite>>
    /\ UNCHANGED <<cmpVars, apiVars>>

\* Test 4: profile prediction on 5 points into outputs_profile, of which
\* chi_ion_itg is read; outputs keeps the result of Test 3
VP_Profile ==
    /\ script = "verify_python"
    /\ pc = "profile"
    /\ \/ IF "chi_ion_itg" \in DOMAIN Predict(5)
          THEN pc' = "keys" /\ UNCHANGED <<error, exit_status, stdout>>
          ELSE Abort("KeyError") /\ stdout' = stdout \cup {"error"}
       \/ Abort("Exception") /\ stdout' = stdout \cup {"error"}
    /\ UNCHANGED <<script, predVars, orderVars, convVars>>
    /\ UNCHANGED <<cmpVars, apiVars>>

\* Test 5: one line per expected key, present or missing
VP_Keys ==
    /\ script = "verify_python"
    /\ pc = "keys"
    /\ stdout' = stdout
           \cup (IF \E k \in Range(ExpectedKeys) : k \in DOMAIN outputs
                 THEN {"present"} ELSE {})
           \cup (IF \E k \in Range(ExpectedKeys) : k \notin DOMAIN outputs
                 THEN {"missing"} ELSE {})
    /\ pc' = "summary"
    /\ UNCHANGED <<script, predVars, orderVars, convVars, error, exit_status>>
    /\ UNCHANGED <<cmpVars, apiVars>>

\* "All Python tests passed!", then the script ends
VP_Summary ==
    /\ script = "verify_python"
    /\ pc = "summary"
    /\ stdout' = stdout \cup {"all_python_tests_passed"}
    /\ pc' = "done"
    /\ exit_status' = 0
    /\ UNCHANGED <<script, predVars, orderVars, convVars, error>>
    /\ UNCHANGED <<cmpVars, apiVars>>

VerifyScripts == {"verify_output_order", "test_new_api_final", "verify_python"}

InitVerify ==
    /\ script \in VerifyScripts
    /\ pc = IF script = "verify_output_order" THEN "verify" ELSE "load"
    /\ onnx_order \in (IF script = "verify_output_order" THEN OnnxOrders ELSE {<<>>})
    /\ swift_order = IF script = "verify_output_order" THEN SwiftOrder ELSE <<>>
    /\ model_keys \in (IF script = "verify_python" THEN KeySets(Range(ExpectedKeys))
                       ELSE KeySets(NewApiKeys))
    /\ model_rank \in (IF script = "verify_python" THEN {1} ELSE 1..2)
    /\ model_bad \in (IF script = "verify_python" THEN {{}}
                      ELSE BadSets({"efiITG"}))
    /\ outputs = <<>>
    /\ expected_outputs = <<>>
    /\ test_i = 1
    /\ candidate = <<>>
    /\ tolerance = 0
    /\ parity_report = <<>>
    /\ new_api_works = FALSE
    /\ old_api_works = FALSE
    /\ mlx_conversion_works = FALSE
    /\ calls = <<>>
    /\ all_finite = TRUE
    /\ matched = FALSE
    /\ differences = <<>>
    /\ stdout = {}
    /\ exit_status = -1
    /\ graph = NoGraph
    /\ output_path = <<>>
    /\ weights = <<>>
    /\ disk = <<>>
    /\ error = "none"

Verify ==
    \/ OrderVerification \/ VO_Predict \/ VO_Summary
    \/ NA_Load \/ NA_Predict \/ NA_Sanity \/ NA_Summary
    \/ VP_Init \/ VP_Scalar \/ VP_Profile \/ VP_Keys \/ VP_Summary

SpecVerify == InitVerify /\ [][Verify]_vars

(* ------------------------- verify_python_api.py ------------------------ *)

\* the order in which main calls the tests
ApiTests == <<"test_qlknn_model", "test_old_api", "test_mlx_conversion_simulation">>

\* test_qlknn_model: imports, load_default_model, predict on 3 samples and
\* float(value_np[0]) of every output, all inside try; any exception is
\* caught and makes the result False
TestQlknnModel ==
    /\ script = "verify_python_api"
    /\ pc = "test_qlknn_model"
    /\ \/ /\ outputs' = Predict(3)
          /\ new_api_works' = TRUE
          /\ UNCHANGED stdout
       \/ /\ new_api_works' = FALSE
          /\ stdout' = stdout \cup {"error"}
          /\ UNCHANGED outputs
    /\ calls' = Append(calls, "test_qlknn_model")
    /\ pc' = "test_old_api"
    /\ UNCHANGED <<script, orderVars, exit_status, convVars, error, model_keys,
                   model_rank, model_bad, expected_outputs, test_i, all_finite,
                   cmpVars, old_api_works, mlx_conversion_works>>

\* test_old_api: ImportError and any other exception are caught
TestOldApi ==
    /\ script = "verify_python_api"
    /\ pc = "test_old_api"
    /\ \/ old_api_works' = TRUE /\ UNCHANGED stdout
       \/ old_api_works' = FALSE /\ stdout' = stdout \cup {"error"}
    /\ calls' = Append(calls, "test_old_api")
    /\ pc' = "test_mlx_conversion_simulation"
    /\ UNCHANGED <<script, orderVars, exit_status, convVars, error, predVars,
                   cmpVars, new_api_works, mlx_conversion_works>>

\* value_np.shape[0] == batch_size for every output of the batch
BatchSizeOk(outs, batch_size) == \A k \in DOMAIN outs : outs[k].shape[1] = batch_size

\* test_mlx_conversion_simulation: the asserts on literals hold; Test 3
\* predicts on 3 samples and asserts the leading dimension of every output;
\* an AssertionError is caught like any other exception
TestMlxConversionSimulation ==
    /\ script = "verify_python_api"
    /\ pc = "test_mlx_conversion_simulation"
    /\ \/ /\ outputs' = Predict(3)
          /\ mlx_conversion_works' = BatchSizeOk(Predict(3), 3)
          /\ stdout' = IF BatchSizeOk(Predict(3), 3) THEN stdout
                       ELSE stdout \cup {"error"}
       \/ /\ mlx_conversion_works' = FALSE
          /\ stdout' = stdout \cup {"error"}
          /\ UNCHANGED outputs
    /\ calls' = Append(calls, "test_mlx_conversion_simulation")
    /\ pc' = "summary"
    /\ UNCHANGED <<script, orderVars, exit_status, convVars, error, model_keys,
                   model_rank, model_bad, expected_outputs, test_i, all_finite,
                   cmpVars, new_api_works, old_api_works>>

\* ApiSummary letting the old API's result into the exit status
ApiSummaryMut ==
    /\ script = "verify_python_api"
    /\ pc = "summary"
    /\ stdout' = stdout \cup {"summary"}
    /\ exit_status' = IF new_api_works /\ old_api_works /\ mlx_conversion_works
                      THEN 0 ELSE 1
    /\ pc' = "done"
    /\ UNCHANGED <<script, orderVars, convVars, error, predVars, cmpVars, apiVars>>

\* main's SUMMARY block and return value, handed to sys.exit
ApiSummary ==
    /\ script = "verify_python_api"
    /\ pc = "summary"
    /\ stdout' = stdout \cup
           {IF new_api_works /\ mlx_conversion_works THEN "all_tests_passed"
            ELSE IF new_api_works THEN "mlx_conversion_may_have_issues"
            ELSE IF old_api_works THEN "only_old_api_available"
            ELSE "no_working_api"}
    /\ exit_status' = IF new_api_works /\ mlx_conversion_works THEN 0 ELSE 1
    /\ pc' = "done"
    /\ UNCHANGED <<script, orderVars, convVars, error, predVars, cmpVars, apiVars>>

InitApi ==
    /\ script = "verify_python_api"
    /\ pc = "test_qlknn_model"
    /\ model_keys \in KeySets(NewApiKeys)
    /\ model_rank \in 1..2
    /\ model_bad \in BadSets({"efiITG"})
    /\ outputs = <<>>
    /\ expected_outputs = <<>>
    /\ test_i = 1
    /\ all_finite = TRUE
    /\ candidate = <<>>
    /\ tolerance = 0
    /\ parity_report = <<>>
    /\ new_api_works = FALSE
    /\ old_api_works = FALSE
    /\ mlx_conversion_works = FALSE
    /\ calls = <<>>
    /\ onnx_order = <<>>
    /\ swift_order = <<>>
    /\ matched = FALSE
    /\ differences = <<>>
    /\ stdout = {}
    /\ exit_status = -1
    /\ graph = NoGraph
    /\ output_path = <<>>
    /\ weights = <<>>
    /\ disk = <<>>
    /\ error = "none"

Api == TestQlknnModel \/ TestOldApi \/ TestMlxConversionSimulation \/ ApiSummary

SpecApi == InitApi /\ [][Api]_vars

(* ------------------- the parity comparison (compare) ------------------- *)

\* compare(fixture, candidate, tolerance) is the comparison the candidate
\* implementation's test suite performs on the golden fixture.  A value is
\* [finite, micro]: a finite value in units of 1e-6, or a non-finite one;
\* the tolerance is in the same units (1e-5 is 10).  The fixture and the
\* candidate have the layout test_mlx_vs_python.py writes: a sequence of
\* [name, result] per test vector, result a sequence of [name, values].

\* most samples of a compared test vector
MaxSamples == 2

Fin(m) == [finite |-> TRUE, micro |-> m]

NonFinite == [finite |-> FALSE, micro |-> 0]

\* |golden - candidate|
AbsDiff(g, c) == IF g.micro >= c.micro THEN g.micro - c.micro ELSE c.micro - g.micro

\* PairFlag flagging a difference equal to the tolerance as well
PairFlagMut(g, c, tol) ==
    IF ~g.finite \/ ~c.finite THEN "non_finite"
    ELSE IF AbsDiff(g, c) >= tol THEN "tolerance_exceeded"
    ELSE "ok"

\* the verdict on one golden/candidate pair
PairFlag(g, c, tol) ==
    IF ~g.finite \/ ~c.finite THEN "non_finite"
    ELSE IF AbsDiff(g, c) > tol THEN "tolerance_exceeded"
    ELSE "ok"

\* element-wise comparison of one channel: the flagged pairs, by sample index
RECURSIVE CompareValues(_, _, _, _)
CompareValues(gv, cv, tol, i) ==
    IF i > Len(gv) THEN <<>>
    ELSE (IF PairFlag(gv[i], cv[i], tol) # "ok"
          THEN <<[index |-> i - 1, reason |-> PairFlag(gv[i], cv[i], tol),
                  difference |-> AbsDiff(gv[i], cv[i])]>>
          ELSE <<>>) \o CompareValues(gv, cv, tol, i + 1)

\* the maximum observed difference of one channel, over its finite pairs
RECURSIVE MaxDifference(_, _, _)
MaxDifference(gv, cv, i) ==
    IF i > Len(gv) THEN 0
    ELSE IF gv[i].finite /\ cv[i].finite
         THEN Max(AbsDiff(gv[i], cv[i]), MaxDifference(gv, cv, i + 1))
         ELSE MaxDifference(gv, cv, i + 1)

\* d[name] on a dict kept as a sequence of records
Lookup(d, name) == d[CHOOSE i \in 1..Len(d) : d[i].name = name]

\* the report lines of one test vector, one per output channel
RECURSIVE CompareResult(_, _, _, _, _)
CompareResult(test, gres, cres, tol, k) ==
    IF k > Len(gres) THEN <<>>
    ELSE LET gv == gres[k].values
             cv == Lookup(cres, gres[k].name).values
             flags == CompareValues(gv, cv, tol, 1)
         IN <<[test |-> test, channel |-> gres[k].name,
               max_difference |-> MaxDifference(gv, cv, 1),
               pass |-> flags = <<>>, flags |-> flags]>>
            \o CompareResult(test, gres, cres, tol, k + 1)

\* the report lines of all test vectors of the fixture
RECURSIVE CompareFixture(_, _, _, _)
CompareFixture(fix, cand, tol, t) ==
    IF t > Len(fix) THEN <<>>
    ELSE CompareResult(fix[t].name, fix[t].result,
                       Lookup(cand, fix[t].name).result, tol, 1)
         \o CompareFixture(fix, cand, tol, t + 1)

\* the aggregate finiteness verdict
NoNonFinite(lines) ==
    \A l \in 1..Len(lines) : \A f \in 1..Len(lines[l].flags) :
        lines[l].flags[f].reason # "non_finite"

\* compare: every failure is recorded, none ends the comparison early; the
\* exit condition is "all recorded comparisons passed"
Compare ==
    /\ script = "compare"
    /\ pc = "compare"
    /\ LET lines == CompareFixture(expected_outputs, candidate, tolerance, 1)
       IN /\ parity_report' = [lines |-> lines, all_finite |-> NoNonFinite(lines)]
          /\ exit_status' = IF \A l \in 1..Len(lines) : lines[l].pass THEN 0 ELSE 1
    /\ pc' = "done"
    /\ UNCHANGED <<script, orderVars, stdout, convVars, error, predVars,
                   candidate, tolerance, apiVars>>

GoldenValues == {Fin(1234567), NonFinite}

CandidateValues == {Fin(1234568), Fin(1235000), NonFinite}

\* 1e-5, and 1e-6 (the difference between 1.234567 and 1.234568)
Tolerances == {10, 1}

\* the channels of the compared results, in sorted order
ComparedChannels == <<"efeITG", "efiITG">>

\* the results of n samples with values drawn from V
Results(V, n) ==
    {[k \in 1..Len(ComparedChannels) |->
         [name |-> ComparedChannels[k], values |-> f[k]]] :
       f \in [1..Len(ComparedChannels) -> [1..n -> V]]}

\* fixtures (or candidates) of one test vector of 1..MaxSamples samples
Fixtures(V, n) ==
    {<<[name |-> IF n = 1 THEN "single_sample" ELSE "batch_varying",
        result |-> r]>> : r \in Results(V, n)}

InitCompare ==
    /\ script = "compare"
    /\ pc = "compare"
    /\ \E n \in 1..MaxSamples :
           /\ expected_outputs \in Fixtures(GoldenValues, n)
           /\ candidate \in Fixtures(CandidateValues, n)
    /\ tolerance \in Tolerances
    /\ parity_report = <<>>
    /\ model_keys = {}
    /\ model_rank = 1
    /\ model_bad = {}
    /\ outputs = <<>>
    /\ test_i = 1
    /\ all_finite = TRUE
    /\ new_api_works = FALSE
    /\ old_api_works = FALSE
    /\ mlx_conversion_works = FALSE
    /\ calls = <<>>
    /\ onnx_order = <<>>
    /\ swift_order = <<>>
    /\ matched = FALSE
    /\ differences = <<>>
    /\ stdout = {}
    /\ exit_status = -1
    /\ graph = NoGraph
    /\ output_path = <<>>
    /\ weights = <<>>
    /\ disk = <<>>
    /\ error = "none"

SpecCompare == InitCompare /\ [][Compare]_vars

(* ======================= properties: order verifier ==================== *)

\* the Python indices reported under "Differences:"
ReportedIndices == {differences[k].index : k \in 1..Len(differences)}

\* C1: after the order verification, every index that exists in only one of
\* the two sequences is reported as a difference.  The loop runs over
\* zip(..), which ends with the shorter sequence, so this fails.
C1_LongerSequenceCovered ==
    (script = "verify_output_order" /\ pc = "predict")
        => \A i \in (Min(Len(onnx_order), Len(swift_order)) + 1)
                    ..Max(Len(onnx_order), Len(swift_order)) :
               (i - 1) \in ReportedIndices

\* C2: for two sequences of equal length the verification reports a match
\* exactly when they are identical, and otherwise one line for each index at
\* which the names differ, in index order and carrying the two names found
\* there, and no line for an index at which they agree.
C2_EqualLengthExactDifferences ==
    (script = "verify_output_order" /\ pc = "predict"
        /\ Len(onnx_order) = Len(swift_order))
        => /\ matched = (\A i \in 1..Len(onnx_order) : onnx_order[i] = swift_order[i])
           /\ matched => (differences = <<>> /\ stdout = {"order_matches"})
           /\ ~matched => stdout = {"order_mismatch"}
           /\ ReportedIndices =
                  {i - 1 : i \in {j \in 1..Len(onnx_order) :
                                      onnx_order[j] # swift_order[j]}}
           /\ \A k \in 1..Len(differences) :
                  /\ differences[k].onnx = onnx_order[differences[k].index + 1]
                  /\ differences[k].swift = swift_order[differences[k].index + 1]
                  /\ \A m \in 1..Len(differences) :
                         k < m => differences[k].index < differences[m].index

\* C2 witness: equal lengths, the names differ at some index and agree at another
C2_Witness ==
    /\ script = "verify_output_order" /\ pc = "predict"
    /\ Len(onnx_order) = Len(swift_order)
    /\ ~matched
    /\ Len(differences) >= 1
    /\ Len(differences) < Len(onnx_order)

(* ========================= properties: converters ====================== *)

HasArchive == ArchiveFile \in DOMAIN disk

HasCompleteArchive == HasArchive /\ disk[ArchiveFile].complete

HasDescriptor == MetadataPath \in DOMAIN disk

HasCompleteDescriptor == HasDescriptor /\ disk[MetadataPath].complete

Ended == pc \in {"done", "failed"}

\* C3 as stated: when a conversion run has ended, storage holds both the
\* archive and the descriptor or neither of them.
C3_AtomicPair ==
    (IsConverter /\ Ended) => (HasArchive <=> HasDescriptor)

\* C3 amended: the descriptor is written only after the archive: a
\* descriptor file, even a partly written one, is on storage only next to
\* the completely written archive, and a run that ends with status 0 leaves
\* both complete; the archive may well be there without a descriptor.
C3_DescriptorOnlyAfterArchive ==
    IsConverter =>
        /\ HasDescriptor => HasCompleteArchive
        /\ (pc = "done") => (exit_status = 0 /\ HasCompleteArchive
                              /\ HasCompleteDescriptor)

\* C3 witness: a run aborted after the archive write leaves the complete
\* archive without any descriptor
C3_Witness ==
    /\ IsConverter /\ pc = "failed" /\ error = "OSError"
    /\ HasCompleteArchive /\ ~HasDescriptor

InitNames == [i \in 1..Len(graph.initializer) |-> graph.initializer[i].name]

DistinctNames(q) == \A i, j \in 1..Len(q) : i # j => q[i] # q[j]

\* first and last position of name n in sequence q
FirstPos(q, n) == CHOOSE i \in 1..Len(q) : q[i] = n /\ \A j \in 1..(i - 1) : q[j] # n

LastPos(q, n) == CHOOSE i \in 1..Len(q) : q[i] = n /\ \A j \in (i + 1)..Len(q) : q[j] # n

\* C4 as stated: the extracted tensor names are the graph's initializer
\* names, one per initializer and in the same order.
C4_OnePerInitializer ==
    (IsConverter /\ pc # "extract") => Keys(weights) = InitNames

\* C4 amended: the extracted tensor names are pairwise distinct and are the
\* distinct initializer names in order of first occurrence, each holding the
\* float32 cast of the LAST initializer of that name; when the initializer
\* names are pairwise distinct this is one tensor per initializer in the
\* graph's order.  The written archive holds exactly these tensors, each
\* once; the zipped arrays hold them in this order, the order inside the
\* tensor archive is the library's, and the tensor archive's descriptor lists
\* the names in extraction order.
C4_OnePerDistinctName ==
    (IsConverter /\ pc # "extract") =>
        /\ DistinctNames(Keys(weights))
        /\ {weights[i].name : i \in 1..Len(weights)}
               = {InitNames[i] : i \in 1..Len(InitNames)}
        /\ \A i, j \in 1..Len(weights) :
               i < j => FirstPos(InitNames, weights[i].name)
                          < FirstPos(InitNames, weights[j].name)
        /\ \A i \in 1..Len(weights) :
               /\ weights[i].dtype = "float32"
               /\ weights[i].data
                      = graph.initializer[LastPos(InitNames, weights[i].name)].data
        /\ DistinctNames(InitNames) => Keys(weights) = InitNames
        /\ HasCompleteArchive =>
               /\ Len(disk[ArchiveFile].tensors) = Len(weights)
               /\ {disk[ArchiveFile].tensors[i] : i \in 1..Len(weights)}
                      = {weights[i] : i \in 1..Len(weights)}
               /\ script = "convert_onnx_to_mlx"
                      => disk[ArchiveFile].tensors = weights
        /\ (HasCompleteDescriptor /\ script = "convert_onnx_to_safetensors")
               => disk[MetadataPath].content.weight_names = Keys(weights)

\* C4 witness: a name repeated around another one (w, b, w) with different
\* data: two tensors are archived, w first and holding the data of the third
\* initializer, and the tensor archive lays them down in the other order
C4_Witness ==
    /\ script = "convert_onnx_to_safetensors" /\ pc = "done"
    /\ InitNames = <<"w", "b", "w">>
    /\ graph.initializer[1].data # graph.initializer[3].data
    /\ Keys(weights) = <<"w", "b">>
    /\ weights[1].data = graph.initializer[3].data
    /\ HasCompleteArchive /\ Keys(disk[ArchiveFile].tensors) = <<"b", "w">>
    /\ disk[MetadataPath].content.weight_names = <<"w", "b">>

\* C5 as stated: a run on a graph with zero initializers aborts and writes
\* neither archive nor descriptor (storage faults apart: they abort any run).
C5_MissingInitializerAborts ==
    (IsConverter /\ graph.initializer = <<>> /\ error # "OSError")
        => (pc # "done" /\ disk = <<>>)

\* C5 amended: a graph with zero initializers is not rejected: extraction
\* yields the empty tensor collection, a run is aborted only by an IndexError
\* (zipped-array converter on a graph without inputs) or a storage fault, and
\* a run that is not aborted ends with status 0 having written an archive
\* with no tensors and its descriptor.
C5_EmptyGraphConverted ==
    (IsConverter /\ graph.initializer = <<>>) =>
        /\ weights = <<>>
        /\ (pc = "failed") => error \in {"IndexError", "OSError"}
        /\ (pc = "done") =>
               /\ exit_status = 0
               /\ HasCompleteArchive /\ disk[ArchiveFile].tensors = <<>>
               /\ HasCompleteDescriptor

\* C5 witness: a graph without initializers converted to the end
C5_Witness ==
    /\ IsConverter /\ graph.initializer = <<>> /\ pc = "done"
    /\ HasCompleteArchive /\ HasCompleteDescriptor

DescriptorFields == {"input_names", "output_names", "weight_names", "precision"}

\* C6 as stated: every written descriptor has input_names, output_names, a
\* layer list, weight_names and precision, with precision float32.
C6_DescriptorCarriesPrecision ==
    (IsConverter /\ HasCompleteDescriptor) =>
        /\ DescriptorFields \subseteq DOMAIN disk[MetadataPath].content
        /\ "architecture" \in DOMAIN disk[MetadataPath].content
        /\ disk[MetadataPath].content.precision = "float32"

\* C6 amended: the descriptor next to the tensor archive has input_names,
\* output_names, the layer list, weight_names and precision = float32; the
\* descriptor next to the zipped arrays has input_names, output_names and
\* num_layers only (no layer list, weight_names or precision).  In both
\* formats every archived tensor has element type float32.
C6_PrecisionPerFormat ==
    IsConverter =>
        /\ (HasCompleteDescriptor /\ script = "convert_onnx_to_safetensors") =>
               /\ DOMAIN disk[MetadataPath].content
                      = DescriptorFields \cup {"architecture", "model_name"}
               /\ DOMAIN disk[MetadataPath].content.architecture = {"layers"}
               /\ disk[MetadataPath].content.precision = "float32"
               /\ disk[MetadataPath].content.input_names = InputNames
               /\ disk[MetadataPath].content.output_names = OutputNames
        /\ (HasCompleteDescriptor /\ script = "convert_onnx_to_mlx") =>
               /\ DOMAIN disk[MetadataPath].content
                      = {"input_names", "output_names", "num_layers"}
               /\ disk[MetadataPath].content.input_names = InputNames
               /\ disk[MetadataPath].content.output_names = OutputNames
        /\ HasCompleteArchive =>
               \A i \in 1..Len(disk[ArchiveFile].tensors) :
                   disk[ArchiveFile].tensors[i].dtype = "float32"

\* C6 witness: a tensor-archive descriptor written for a float64 source
C6_Witness ==
    /\ script = "convert_onnx_to_safetensors" /\ pc = "done"
    /\ HasCompleteDescriptor
    /\ \E i \in 1..Len(graph.initializer) : graph.initializer[i].dtype = "float64"

\* the Gemm and MatMul nodes of the graph
GemmMatMulNodes == {i \in 1..Len(graph.node) : graph.node[i] \in {"Gemm", "MatMul"}}

\* the number of Linear layers a descriptor reports
LinearCount(c) ==
    IF "architecture" \in DOMAIN c
    THEN Cardinality({i \in 1..Len(c.architecture.layers) :
                          c.architecture.layers[i].type = "Linear"})
    ELSE c.num_layers

\* C7 as stated: the number of Linear layers a written descriptor reports is
\* the number of Gemm/MatMul nodes of the graph.
C7_LayersFromGraph ==
    (IsConverter /\ HasCompleteDescriptor)
        => LinearCount(disk[MetadataPath].content) = Cardinality(GemmMatMulNodes)

\* C7 amended: the zipped-array converter's descriptor reports the number of
\* Gemm/MatMul nodes of the graph; the tensor-archive converter's descriptor
\* always lists the same six Linear layers, whatever the graph.
C7_LayersPerConverter ==
    (IsConverter /\ HasCompleteDescriptor) =>
        /\ script = "convert_onnx_to_mlx"
               => disk[MetadataPath].content.num_layers = Cardinality(GemmMatMulNodes)
        /\ script = "convert_onnx_to_safetensors"
               => /\ LinearCount(disk[MetadataPath].content) = 6
                  /\ Len(disk[MetadataPath].content.architecture.layers) = 6

\* C7 witness: the zipped-array descriptor of a graph with a Gemm and a MatMul
C7_Witness ==
    /\ script = "convert_onnx_to_mlx" /\ pc = "done" /\ HasCompleteDescriptor
    /\ graph.node = <<"Gemm", "MatMul">>
    /\ disk[MetadataPath].content.num_layers = 2

\* C8: in every written descriptor that has layer records, the number of
\* input_names is the input width of the first layer record and the number
\* of output_names is the output width of the last one.
C8_NamesMatchWidths ==
    (IsConverter /\ HasCompleteDescriptor
        /\ "architecture" \in DOMAIN disk[MetadataPath].content) =>
        LET c == disk[MetadataPath].content
            layers == c.architecture.layers
        IN /\ layers # <<>>
           /\ Len(c.input_names) = layers[1].in
           /\ Len(c.output_names) = layers[Len(layers)].out

\* C8 witness: a tensor-archive descriptor with its layer records on storage
C8_Witness ==
    /\ script = "convert_onnx_to_safetensors" /\ pc = "done"
    /\ HasCompleteDescriptor
    /\ Len(disk[MetadataPath].content.architecture.layers) = 6

(* ================== properties: fixture and verification =============== *)

\* the entries of the fixture stored under test vector name n
EntriesOf(n) == {i \in 1..Len(expected_outputs) : expected_outputs[i].name = n}

\* C9: for every test vector the harness has run, the fixture holds exactly
\* one entry under its name; the keys of that entry are exactly the keys the
\* predictor returned, each once, and every value sequence is as long as the
\* test vector has samples.  The fixture has one entry per test vector run,
\* and the file written at the end holds this fixture.
C9_FixtureShape ==
    (script = "test_mlx_vs_python") =>
        /\ Len(expected_outputs) = test_i - 1
        /\ \A t \in 1..(test_i - 1) :
               /\ Cardinality(EntriesOf(TestCases[t].name)) = 1
               /\ LET r == expected_outputs[CHOOSE i \in EntriesOf(TestCases[t].name) : TRUE].result
                  IN /\ {r[i].name : i \in 1..Len(r)} = model_keys
                     /\ Len(r) = Cardinality(model_keys)
                     /\ \A i \in 1..Len(r) : Len(r[i].values) = TestCases[t].n
        /\ (test_i > 1) => DOMAIN outputs = model_keys
        /\ (pc = "done") =>
               /\ test_i = Len(TestCases) + 1
               /\ disk[FixtureFile].complete
               /\ disk[FixtureFile].content = expected_outputs

\* C9 witness: the fixture is written, the 5-sample batch came back as
\* arrays of shape (5, 1) and every sequence stored for it has length 5
C9_Witness ==
    /\ script = "test_mlx_vs_python" /\ pc = "done"
    /\ model_rank = 2 /\ model_keys # {}
    /\ Len(disk[FixtureFile].content) = 4
    /\ disk[FixtureFile].content[4].name = "batch_varying"
    /\ \A i \in 1..Len(disk[FixtureFile].content[4].result) :
           Len(disk[FixtureFile].content[4].result[i].values) = 5

\* the lines that record a verification failure
FailureLines == {"order_mismatch", "non_finite", "missing"}

\* C10: a verification run that ends with the success summary and exit
\* status 0 has recorded no verification failure: no order mismatch, no
\* non-finite output, no missing expected key.  Each of the three scripts
\* prints its success summary unconditionally, so this fails.
C10_SuccessOnlyWithoutFailure ==
    (script \in VerifyScripts /\ pc = "done" /\ exit_status = 0)
        => stdout \cap FailureLines = {}

(* ===================== properties: parity comparison =================== *)

\* the report lines for test vector t, channel c
LinesOf(t, c) ==
    {l \in 1..Len(parity_report.lines) :
        parity_report.lines[l].test = t /\ parity_report.lines[l].channel = c}

\* the sample indices a report line flags
FlaggedIndices(line) == {line.flags[f].index : f \in 1..Len(line.flags)}

\* C11: for every test vector and every output channel of the fixture the
\* report has one line; it flags exactly the samples whose golden and
\* candidate values differ by more than the tolerance or of which either
\* value is not finite, and the channel passes exactly when no sample is
\* flagged.  With tolerance 1e-5, golden 1.234567 passes against candidate
\* 1.234568 and fails against 1.235, the flag naming sample index 0 (and the
\* line the channel) with difference 4.33e-4.
C11_CompareFlagsExactly ==
    (script = "compare" /\ pc = "done") =>
        \A t \in 1..Len(expected_outputs) :
          \A k \in 1..Len(expected_outputs[t].result) :
            LET test == expected_outputs[t].name
                chan == expected_outputs[t].result[k].name
                gv == expected_outputs[t].result[k].values
                cv == candidate[t].result[k].values
                bad(i) == \/ ~gv[i].finite
                          \/ ~cv[i].finite
                          \/ gv[i].micro - cv[i].micro > tolerance
                          \/ cv[i].micro - gv[i].micro > tolerance
            IN /\ Cardinality(LinesOf(test, chan)) = 1
               /\ \A l \in LinesOf(test, chan) :
                    LET line == parity_report.lines[l]
                    IN /\ FlaggedIndices(line) = {i - 1 : i \in {j \in 1..Len(gv) : bad(j)}}
                       /\ line.pass <=> (\A i \in 1..Len(gv) : ~bad(i))
                       /\ (tolerance = 10 /\ gv[1] = Fin(1234567)
                              /\ cv[1] = Fin(1234568) /\ Len(gv) = 1) => line.pass
                       /\ (tolerance = 10 /\ gv[1] = Fin(1234567)
                              /\ cv[1] = Fin(1235000))
                             => /\ ~line.pass
                                /\ line.channel = chan
                                /\ line.flags[1] = [index |-> 0,
                                                    reason |-> "tolerance_exceeded",
                                                    difference |-> 433]

\* C11 witness: tolerance 1e-5, one sample; efiITG golden 1.234567 against
\* candidate 1.235 fails at index 0 while efeITG against 1.234568 passes
C11_Witness ==
    /\ script = "compare" /\ pc = "done" /\ tolerance = 10
    /\ Len(parity_report.lines) = 2
    /\ expected_outputs[1].result[1].values = <<Fin(1234567)>>
    /\ candidate[1].result[1].values = <<Fin(1234568)>>
    /\ parity_report.lines[1].channel = "efeITG" /\ parity_report.lines[1].pass
    /\ expected_outputs[1].result[2].values = <<Fin(1234567)>>
    /\ candidate[1].result[2].values = <<Fin(1235000)>>
    /\ parity_report.lines[2].channel = "efiITG" /\ ~parity_report.lines[2].pass
    /\ FlaggedIndices(parity_report.lines[2]) = {0}
    /\ exit_status = 1

(* ======================= properties: API driver ======================== *)

\* C12: in verify_python_api.main no test failure ends the run: the tests
\* are called once each in the order new API, old API, MLX conversion
\* simulation, whatever the earlier results, and the run ends with exit
\* status 0 exactly when the new-API test and the MLX conversion simulation
\* both succeeded, whatever the old-API test returned.
C12_ApiDriverExit ==
    (script = "verify_python_api") =>
        /\ pc # "failed"
        /\ Len(calls) <= Len(ApiTests)
        /\ calls = SubSeq(ApiTests, 1, Len(calls))
        /\ (pc \in {"summary", "done"}) => calls = ApiTests
        /\ (pc = "done") =>
               /\ exit_status \in {0, 1}
               /\ (exit_status = 0) <=> (new_api_works /\ mlx_conversion_works)
        /\ (pc # "done") => exit_status = -1

\* C12 witness: the old-API test failed, the other two succeeded, status 0
C12_Witness ==
    /\ script = "verify_python_api" /\ pc = "done"
    /\ calls = ApiTests
    /\ new_api_works /\ ~old_api_works /\ mlx_conversion_works
    /\ exit_status = 0

(* ====================== properties: channel order ====================== *)

\* C13: the output_names a converter writes into its descriptor are, position
\* by position, the order the order verifier assumes for the target
\* implementation, so that verifying them against that order reports a
\* match with no difference.  Both converters write efiITG before efeITG,
\* the verifier assumes efeITG before efiITG, so this fails.
C13_OneChannelOrder ==
    (IsConverter /\ HasCompleteDescriptor) =>
        /\ disk[MetadataPath].content.output_names = SwiftOrder
        /\ OrdersEqual(disk[MetadataPath].content.output_names, SwiftOrder)
        /\ Differences(disk[MetadataPath].content.output_names, SwiftOrder) = <<>>

====
